---- MODULE Spec2Model ----
(***************************************************************************)
(* Weather dashboard back end: the Express application (session guard,    *)
(* JSON body parser, default error handler), the weather router, the zod  *)
(* validation schema, the Mongoose model and the OpenWeather normalizer.   *)
(*                                                                         *)
(* JavaScript values are records [k, s, n]: k is the type tag, s the text  *)
(* of a string, n the number (in tenths, so 555 is 55.5) or the instant of *)
(* a Date.  A string holding the ISO rendering of instant t is             *)
(* [k |-> "str", s |-> "iso", n |-> t].                                    *)
(***************************************************************************)
EXTENDS Integers, Sequences, FiniteSets, TLC

\* ------------------------------------------------------------------ bounds
MaxIds == 2
MaxTime == 1
MaxActions == 3
MaxOdd == 2

\* ------------------------------------------------------- JavaScript values
Undef == [k |-> "undef", s |-> "", n |-> 0]
Null == [k |-> "null", s |-> "", n |-> 0]
Str(x) == [k |-> "str", s |-> x, n |-> 0]
Num(x) == [k |-> "num", s |-> "", n |-> x]
DateV(t) == [k |-> "date", s |-> "", n |-> t]
ObjectId(i) == [k |-> "oid", s |-> "", n |-> i]
IsoStr(t) == [k |-> "str", s |-> "iso", n |-> t]
BoolV(b) == [k |-> "bool", s |-> "", n |-> IF b THEN 1 ELSE 0]

\* JavaScript truthiness (the `manual` flag, the `||` fallbacks).
Truthy(v) ==
    CASE v.k = "undef" -> FALSE
      [] v.k = "null" -> FALSE
      [] v.k = "bool" -> v.n = 1
      [] v.k = "num" -> v.n # 0
      [] v.k = "str" -> v.s # ""
      [] OTHER -> TRUE

\* A fallback written with `||`: the default replaces every falsy value.
FalsyDefault(v, d) == IF Truthy(v) THEN v ELSE d

\* The `??` operator: the default replaces undefined and null only.
Nullish(v, d) == IF v.k \in {"undef", "null"} THEN d ELSE v

IsString(v) == v.k = "str"
IsNumber(v) == v.k = "num"
IsInt(v) == v.k = "num" /\ v.n % 10 = 0
IsDate(v) == v.k = "date"

\* Length of a string value; the ISO rendering of a date has 24 characters.
StrLen(v) == IF v.s = "iso" THEN 24 ELSE Len(v.s)

\* --------------------------------------------------------- record shapes
ScalarFields ==
    {"city", "country", "temp", "feelsLike", "humidity", "pressure",
     "windSpeed", "condition", "description", "fetchedAt"}
SchemaFields == ScalarFields \cup {"coordinates"}

Coord(lon, lat) == [k |-> "obj", lon |-> lon, lat |-> lat]
NoCoord == [k |-> "undef", lon |-> Undef, lat |-> Undef]

\* Apply F to every scalar value of an object, inside coordinates too.
MapValues(c, F(_)) ==
    [f \in DOMAIN c |->
        IF f = "coordinates"
        THEN [k |-> c[f].k, lon |-> F(c[f].lon), lat |-> F(c[f].lat)]
        ELSE F(c[f])]

\* JSON.stringify of one value: a Date becomes its ISO string, an ObjectId
\* its hex string.
JsonValue(v) ==
    CASE v.k = "date" -> IsoStr(v.n)
      [] v.k = "oid" -> [k |-> "str", s |-> "oid", n |-> v.n]
      [] OTHER -> v

\* express.json(): the request body as the handlers see it is what
\* JSON.parse gives for the text the client sent.
expressJson(payload) == MapValues(payload, JsonValue)

\* res.json(doc): the response body is the JSON form of the document.
resJson(doc) == MapValues(doc, JsonValue)

\* ------------------------------------------------------ validation schema
weatherSchemaOk(c) ==
    /\ IsString(c.city)
    /\ IsString(c.country) /\ StrLen(c.country) >= 2
    /\ c.coordinates.k = "obj"
    /\ IsNumber(c.coordinates.lon)
    /\ IsNumber(c.coordinates.lat)
    /\ IsNumber(c.temp)
    /\ IsNumber(c.feelsLike)
    /\ IsInt(c.humidity)
    /\ IsInt(c.pressure)
    /\ IsNumber(c.windSpeed)
    /\ IsString(c.condition)
    /\ IsString(c.description)
    /\ IsDate(c.fetchedAt)

\* z.object strips the keys the schema does not name.
weatherSchemaParse(c) == [f \in SchemaFields |-> c[f]]

\* ------------------------------------------------------------ Mongoose model
VARIABLES
    store,        \* the weather collection: _id -> document
    nextId,       \* the next ObjectId the driver generates
    now,          \* the wall clock (Date.now)
    users,        \* the in-memory user directory (keys of the Map)
    sessions,     \* the session store: session id -> passport user key
    apiKey,       \* process.env.OPENWEATHER_API_KEY is set
    last,         \* the last request and the response it was given
    created,      \* history: _id -> the body of the 201 response that gave it,
                  \*   for the ids no DELETE has answered with 200
    replaced,     \* history: the ids a PUT has answered with 200
    deleted,      \* history: the ids a DELETE has answered with 200
    dash          \* the dashboard pages (public/js/weather.js): page -> its
                  \*   DOM and the position of the action it is running

vars == <<store, nextId, now, users, sessions, apiKey, last, created, replaced, deleted, dash>>

\* The id of a request path: 0 stands for a string that is not an ObjectId
\* ("not-a-valid-id"), a positive number for a well-formed ObjectId.
BadId == 0
ReqIds == 0..MaxIds

\* A cast that takes every string for an ObjectId.
AnyStringIsObjectId(id) == TRUE

\* The cast of a path's id to ObjectId succeeds.
IsObjectId(id) == id # BadId

\* Required validators that take an empty string for a value.
WeatherSchemaPresent(c) ==
    /\ IsString(c.city)
    /\ IsString(c.country)
    /\ IsNumber(c.coordinates.lon)
    /\ IsNumber(c.coordinates.lat)

\* The `required: true` validators of WeatherSchema; a required String
\* rejects the empty string.
WeatherSchemaValid(c) ==
    /\ IsString(c.city) /\ c.city.s # ""
    /\ IsString(c.country) /\ c.country.s # ""
    /\ IsNumber(c.coordinates.lon)
    /\ IsNumber(c.coordinates.lat)

\* Mongoose casts what it is given for a Date path: a date string becomes
\* the Date it names.
CastDate(v) == IF v.k = "str" /\ v.s = "iso" THEN DateV(v.n) ELSE v

\* The document Weather.create(parsed) inserts: the parsed fields, a fresh
\* _id and the two timestamps of `timestamps: true`.
NewDoc(parsed, id, t) ==
    [f \in SchemaFields \cup {"_id", "createdAt", "updatedAt"} |->
        CASE f = "_id" -> ObjectId(id)
          [] f \in {"createdAt", "updatedAt"} -> DateV(t)
          [] f = "fetchedAt" -> CastDate(parsed[f])
          [] OTHER -> parsed[f]]

\* The document findByIdAndUpdate(id, parsed, {new: true}) leaves: every
\* field of parsed is set, updatedAt is refreshed, _id and createdAt stay.
UpdatedDoc(old, parsed, t) ==
    [f \in DOMAIN old |->
        CASE f = "fetchedAt" -> CastDate(parsed[f])
          [] f \in SchemaFields -> parsed[f]
          [] f = "updatedAt" -> DateV(t)
          [] OTHER -> old[f]]

\* An id generator that gives the same id every time.
FixedObjectId(st, n) == 1

\* An id generator that gives the lowest id not in the collection.
ReusedObjectId(st, n) ==
    CHOOSE i \in 1..n : i \notin DOMAIN st /\ \A j \in 1..(i - 1) : j \in DOMAIN st

\* The ObjectId the driver generates for an insert: one never given before.
NewObjectId(st, n) == n

WeatherCreate(st, parsed, id, t) ==
    [i \in DOMAIN st \cup {id} |-> IF i = id THEN NewDoc(parsed, id, t) ELSE st[i]]

WeatherFindByIdAndUpdate(st, id, parsed, t) ==
    [i \in DOMAIN st |-> IF i = id THEN UpdatedDoc(st[i], parsed, t) ELSE st[i]]

\* A delete that takes every document of the same city with it.
WeatherDeleteManyByCity(st, id) ==
    [i \in {j \in DOMAIN st : st[j].city # st[id].city} |-> st[i]]

WeatherFindByIdAndDelete(st, id) ==
    [i \in DOMAIN st \ {id} |-> st[i]]

\* ------------------------------------------------------------- normalizer
\* A provider response, flattened: each entry is the value the optional
\* chain reads (data.sys?.country, data.weather?.[0]?.main, ...), Undef when
\* any link of the chain is missing.
ProviderData(name, country, lon, lat, temp, feels, hum, pres, wind, main, desc) ==
    [name |-> name, country |-> country, lon |-> lon, lat |-> lat,
     temp |-> temp, feels_like |-> feels, humidity |-> hum, pressure |-> pres,
     speed |-> wind, main |-> main, description |-> desc]

fetchWeather(data, t) ==
    [city |-> data.name,
     country |-> Nullish(data.country, Str("NA")),
     coordinates |-> Coord(Nullish(data.lon, Num(0)), Nullish(data.lat, Num(0))),
     temp |-> Nullish(data.temp, Num(0)),
     feelsLike |-> Nullish(data.feels_like, Num(0)),
     humidity |-> Nullish(data.humidity, Num(0)),
     pressure |-> Nullish(data.pressure, Num(0)),
     windSpeed |-> Nullish(data.speed, Num(0)),
     condition |-> Nullish(data.main, Str("Unknown")),
     description |-> Nullish(data.description, Str("Unknown")),
     fetchedAt |-> DateV(t)]

\* The responses the provider is taken to give.
London ==
    ProviderData(Str("London"), Str("GB"), Num(-1), Num(515), Num(123),
                 Num(110), Num(800), Num(10120), Num(41), Str("Clouds"),
                 Str("broken clouds"))
Sparse ==
    ProviderData(Str("Paris"), Undef, Undef, Undef, Num(0), Undef, Undef,
                 Undef, Undef, Undef, Undef)
Nameless == [London EXCEPT !.name = Undef]
EmptyName == [London EXCEPT !.name = Str("")]
Fractional == [London EXCEPT !.humidity = Num(805)]
ProviderResponses == {London, Sparse, Nameless, EmptyName, Fractional}

\* A failed provider call: 0 is a transport error, otherwise the status of
\* the provider's non-2xx answer.
ProviderErrors == {0, 404}

\* ------------------------------------------------------------ auth gateway
Keys == {"google|1"}
Sids == {"s1"}
NoCookie == "none"
NoUser == "none"

\* passport.deserializeUser: users.get(key) || null
deserializeUser(key) == IF key \in users THEN key ELSE NoUser

\* req.isAuthenticated(): the session names a user that deserializes.
isAuthenticated(sid) ==
    /\ sid \in Sids
    /\ sessions[sid] # NoUser
    /\ deserializeUser(sessions[sid]) # NoUser

\* A guard that lets every request through.
ensureAuthedOpen(sid) == TRUE

\* ensureAuthed calls next() exactly when the request is authenticated.
ensureAuthed(sid) == isAuthenticated(sid)

\* ---------------------------------------------------------------- requests
Resp(op, sid, id, sent, status, body, calls, reached) ==
    [op |-> op, sid |-> sid, id |-> id, sent |-> sent, status |-> status,
     body |-> body, calls |-> calls, reached |-> reached, location |-> "",
     error |-> ""]

NoBody == Undef

\* The provider exchanges of a request, in order: each holds the city asked
\* for (params.q); an answered one holds the name the provider gave, a failed
\* one the provider's status (0 for a transport error).
NoCalls == << >>
Answered(city, data) == <<[ok |-> TRUE, q |-> city, name |-> data.name, status |-> 200]>>
Refused(city, e) == <<[ok |-> FALSE, q |-> city, name |-> Undef, status |-> e]>>

\* ----------------------------------------------------- dashboard: the DOM
\* The pages that run public/js/weather.js, and the session cookie the
\* browser of a page sends.
OnePage == {"d1"}
TwoPages == {"d1", "d2"}
Pages == DOMAIN dash
Cookie(d) == "s1"

\* A page before it is opened, then its DOM as the markup gives it: an empty
\* status element, an empty city input, an empty table and a hidden card.
\* pc is where the running action stands, fn the action started last; id
\* and city are its arguments; failed and reqs are history (a request of
\* the action failed; the requests it has sent), and so is acts, the
\* number of actions the page has started.
ClosedPage ==
    [pc |-> "closed", fn |-> "none", id |-> BadId, city |-> Undef,
     status |-> [message |-> "", type |-> ""], input |-> << >>,
     rows |-> << >>, latest |-> Undef, failed |-> FALSE, reqs |-> << >>,
     acts |-> 0, before |-> 0]

\* The text of an input is a sequence of pieces, " " for white space.
RECURSIVE trimStart(_)
trimStart(t) ==
    IF t # << >> /\ Head(t) = " " THEN trimStart(Tail(t)) ELSE t
RECURSIVE trimEnd(_)
trimEnd(t) ==
    IF t # << >> /\ t[Len(t)] = " " THEN trimEnd(SubSeq(t, 1, Len(t) - 1)) ELSE t
\* An input read without String.prototype.trim.
untrimmed(t) == t

trim(t) == trimEnd(trimStart(t))
RECURSIVE Text(_)
Text(t) == IF t = << >> THEN "" ELSE Head(t) \o Text(Tail(t))

\* What the user is taken to type into the city input.
Inputs == {<< >>, <<" ">>, <<" ", "london", " ">>}

\* setStatus(message, type)
setStatus(p, message, type) ==
    [p EXCEPT !.status = [message |-> message, type |-> "status " \o type]]

\* renderLatest(record): the card's city line.
renderLatest(p, record) ==
    [p EXCEPT !.latest = IF Truthy(record.city) THEN record.city
                         ELSE Str("Unknown city")]

\* renderHistory(records): one row per record; its buttons hold the
\* record's _id and the city the row shows.
renderHistory(p, records) ==
    [p EXCEPT !.rows =
        [i \in DOMAIN records |->
            [id |-> records[i]._id,
             city |-> IF Truthy(records[i].city) THEN records[i].city
                      ELSE Str("Unknown")]]]

\* ------------------------------------------------ dashboard: fetchJSON
\* What an awaited call gives: a value, or an error with a message.
Returned(v) == [ok |-> TRUE, value |-> v, message |-> ""]
Thrown(m) == [ok |-> FALSE, value |-> NoBody, message |-> m]

\* fetch() rejects when the request never gets an answer.
FetchRejected == Thrown("Failed to fetch")

StatusText(st) ==
    CASE st = 200 -> "OK"
      [] st = 201 -> "Created"
      [] st = 404 -> "Not Found"
      [] OTHER -> "Internal Server Error"

\* The response fetch() resolves with for the server's answer r: a 302 is
\* followed to "/", with GET for a GET or POST (the index page, which is
\* HTML) and with the same method for a DELETE (no such route: 404).
BrowserFetch(r, method) ==
    IF r.status = 302
    THEN IF method = "DELETE"
         THEN [ok |-> FALSE, statusText |-> StatusText(404),
               text |-> "Cannot DELETE /", parses |-> FALSE, json |-> NoBody]
         ELSE [ok |-> TRUE, statusText |-> StatusText(200),
               text |-> "<!DOCTYPE html>", parses |-> FALSE, json |-> NoBody]
    ELSE [ok |-> r.status >= 200 /\ r.status < 300,
          statusText |-> StatusText(r.status),
          text |-> r.error, parses |-> TRUE, json |-> r.body]

\* A fetchJSON that goes to res.json() without looking at res.ok.
fetchJSONUnchecked(res) ==
    IF ~res.parses THEN Thrown("SyntaxError") ELSE Returned(res.json)

\* fetchJSON: throw Error(text || statusText) unless res.ok, else res.json().
fetchJSON(res) ==
    IF ~res.ok
    THEN Thrown(IF res.text # "" THEN res.text ELSE res.statusText)
    ELSE IF ~res.parses THEN Thrown("SyntaxError")
    ELSE Returned(res.json)

Init ==
    /\ dash = [d \in OnePage |-> ClosedPage]
    /\ store = << >>
    /\ nextId = 1
    /\ now = 0
    /\ users = {}
    /\ sessions = [s \in Sids |-> NoUser]
    /\ apiKey \in BOOLEAN
    /\ last = Resp("none", NoCookie, BadId, NoBody, 0, NoBody, NoCalls, FALSE)
    /\ created = << >>
    /\ replaced = {}
    /\ deleted = {}

\* What a client puts in a request body, before JSON.stringify.
BodyFields == SchemaFields \cup {"manual", "_id"}
Testville ==
    [city |-> Str("Testville"), country |-> Str("US"),
     coordinates |-> Coord(Num(-751), Num(399)), temp |-> Num(210),
     feelsLike |-> Num(200), humidity |-> Num(550), pressure |-> Num(10130),
     windSpeed |-> Num(40), condition |-> Str("Clouds"),
     description |-> Str("overcast clouds"), fetchedAt |-> DateV(0),
     manual |-> Undef, _id |-> Undef]
KeepMe == [Testville EXCEPT !.city = Str("KeepMe"), !.temp = Num(0)]
IsoDated == [Testville EXCEPT !.fetchedAt = IsoStr(0)]
ShortCountry == [Testville EXCEPT !.country = Str("U")]
NoCity == [Testville EXCEPT !.city = Undef]
EmptyCity == [Testville EXCEPT !.city = Str("")]
FracHumidity == [Testville EXCEPT !.humidity = Num(555)]
Empty == [f \in BodyFields |-> IF f = "coordinates" THEN NoCoord ELSE Undef]
CityOnly == [Empty EXCEPT !.city = Str("london")]

\* Bodies that carry an _id of the caller's choosing (the hex string of the
\* first ObjectId the store gives out).
CallerId == JsonValue(ObjectId(1))
TestvilleWithId == [Testville EXCEPT !._id = CallerId]
CityWithId == [CityOnly EXCEPT !._id = CallerId]

\* The records that satisfy the schema as the client holds them.
ValidRecords == {Testville, KeepMe}
InvalidRecords == {ShortCountry, NoCity, FracHumidity}
Records == ValidRecords \cup InvalidRecords \cup {IsoDated, EmptyCity, TestvilleWithId}

Manual(r) == [r EXCEPT !.manual = BoolV(TRUE)]
PostBodies == {Manual(r) : r \in Records} \cup {CityOnly, Empty, Testville, CityWithId}

\* ------------------------------------------------- default error handler
\* Express answers an error passed to next() with err.status when that is
\* a 4xx or 5xx number and with 500 otherwise.
ExpressErrorStatus(st) == IF st >= 400 /\ st < 600 THEN st ELSE 500

\* The status property of the error axios throws: the provider's status
\* in the versions of axios that set it, none (0) in the others.
AxiosErrorStatus(e) == {0, e}

NoStatus == 0

Fail(op, sid, id, sent, errStatus, message, calls) ==
    /\ last' = [Resp(op, sid, id, sent, ExpressErrorStatus(errStatus),
                     Str(message), calls, TRUE)
                EXCEPT !.error = message]
    /\ UNCHANGED <<store, nextId, now, users, sessions, apiKey, created, replaced, deleted>>

\* ------------------------------------------------------------------ router
\* A create that hands the candidate to the store without weatherSchema.parse.
CreateUnparsed(op, sid, sent, candidate, calls) ==
    LET parsed == weatherSchemaParse(candidate) IN
    IF ~WeatherSchemaValid(parsed)
    THEN Fail(op, sid, BadId, sent, NoStatus, "ValidationError", calls)
    ELSE LET id == NewObjectId(store, nextId) IN
         /\ nextId <= MaxIds
         /\ store' = WeatherCreate(store, parsed, id, now)
         /\ nextId' = nextId + 1
         /\ last' = Resp(op, sid, id, sent, 201, resJson(store'[id]), calls, TRUE)
         /\ created' = [i \in DOMAIN created \cup {id} |->
                           IF i = id THEN last'.body ELSE created[i]]
         /\ UNCHANGED <<now, users, sessions, apiKey, replaced, deleted>>

\* weatherSchema.parse(candidate), Weather.create(parsed), 201.
ParseAndCreate(op, sid, sent, candidate, calls) ==
    IF ~weatherSchemaOk(candidate)
    THEN Fail(op, sid, BadId, sent, NoStatus, "ZodError", calls)
    ELSE LET parsed == weatherSchemaParse(candidate) IN
         IF ~WeatherSchemaValid(parsed)
         THEN Fail(op, sid, BadId, sent, NoStatus, "ValidationError", calls)
         ELSE LET id == NewObjectId(store, nextId) IN
              /\ nextId <= MaxIds
              /\ store' = WeatherCreate(store, parsed, id, now)
              /\ nextId' = nextId + 1
              /\ last' = Resp(op, sid, id, sent, 201, resJson(store'[id]),
                              calls, TRUE)
              /\ created' = [i \in DOMAIN created \cup {id} |->
                                IF i = id THEN last'.body ELSE created[i]]
              /\ UNCHANGED <<now, users, sessions, apiKey, replaced, deleted>>

\* A fetch that goes to the provider whether or not the key is set.
FetchWithoutKeyCheck(op, sid, sent, city) ==
    \/ \E e \in ProviderErrors : \E st \in AxiosErrorStatus(e) :
         Fail(op, sid, BadId, sent, st, "AxiosError", Refused(city, e))
    \/ \E data \in ProviderResponses :
         ParseAndCreate(op, sid, sent, fetchWeather(data, now),
                             Answered(city, data))

\* A fetch that asks the provider a second time when the first call fails.
FetchWithRetry(op, sid, sent, city) ==
    IF ~apiKey
    THEN Fail(op, sid, BadId, sent, 500, "Missing OPENWEATHER_API_KEY", NoCalls)
    ELSE \/ \E e \in ProviderErrors : \E data \in ProviderResponses :
              ParseAndCreate(op, sid, sent, fetchWeather(data, now),
                             Refused(city, e) \o Answered(city, data))
         \/ \E data \in ProviderResponses :
              ParseAndCreate(op, sid, sent, fetchWeather(data, now),
                             Answered(city, data))

\* The provider call of fetchWeather and what follows it in the handler.
FetchAndCreate(op, sid, sent, city) ==
    IF ~apiKey
    THEN Fail(op, sid, BadId, sent, 500, "Missing OPENWEATHER_API_KEY", NoCalls)
    ELSE \/ \E e \in ProviderErrors : \E st \in AxiosErrorStatus(e) :
              Fail(op, sid, BadId, sent, st, "AxiosError", Refused(city, e))
         \/ \E data \in ProviderResponses :
              ParseAndCreate(op, sid, sent, fetchWeather(data, now),
                             Answered(city, data))

\* The values process.env.DEFAULT_CITY is taken to have when it is read.
DefaultCities == {Undef, Str("Rome")}

\* A handler that asks the provider for the default city whatever the body says.
DefaultCityOnly(city) ==
    {IF Truthy(defaultCity) THEN defaultCity ELSE Str("Philadelphia") :
        defaultCity \in DefaultCities}

\* The cities city || process.env.DEFAULT_CITY || "Philadelphia" can be.
CityOrDefault(city) ==
    IF Truthy(city) THEN {city}
    ELSE {IF Truthy(defaultCity) THEN defaultCity ELSE Str("Philadelphia") :
            defaultCity \in DefaultCities}

\* router.post("/")
RouterPost(sid, payload) ==
    LET body == expressJson(payload)
        manual == body.manual
        rest == [f \in DOMAIN body \ {"manual"} |-> body[f]]
    IN  IF Truthy(manual)
        THEN ParseAndCreate("POST /", sid, payload, rest, NoCalls)
        ELSE \E city \in CityOrDefault(rest.city) :
                FetchAndCreate("POST /", sid, payload, city)

PostWeather ==
    \E sid \in Sids \cup {NoCookie}, payload \in PostBodies :
        /\ ensureAuthed(sid)
        /\ RouterPost(sid, payload)
        /\ UNCHANGED dash

\* A fetch endpoint that takes a manual payload the way router.post("/") does.
RouterPostFetchManual(sid, city, payload) ==
    LET body == expressJson(payload)
        sent == [city |-> city, body |-> payload]
    IN  IF Truthy(body.manual)
        THEN ParseAndCreate("POST /fetch", sid, sent,
                            [f \in DOMAIN body \ {"manual"} |-> body[f]], NoCalls)
        ELSE \E q \in CityOrDefault(city) :
                FetchAndCreate("POST /fetch", sid, sent, q)

\* router.post("/fetch"): the handler reads req.query.city and never the body.
RouterPostFetch(sid, city, payload) ==
    \E q \in CityOrDefault(city) :
        FetchAndCreate("POST /fetch", sid, [city |-> city, body |-> payload], q)

QueryCities == {Undef, Str("london")}
FetchBodies == {Empty, Manual(Testville)}

PostFetch ==
    \E sid \in Sids \cup {NoCookie}, city \in QueryCities, payload \in FetchBodies :
        /\ ensureAuthed(sid)
        /\ RouterPostFetch(sid, city, payload)
        /\ UNCHANGED dash

\* A lookup that ignores the id and answers with the first document.
RouterGetAnyRecord(sid, id) ==
    IF DOMAIN store = {}
    THEN Fail("GET /:id", sid, id, NoBody, 404, "Weather record not found", NoCalls)
    ELSE LET first == CHOOSE i \in DOMAIN store : \A j \in DOMAIN store : i <= j IN
         /\ last' = Resp("GET /:id", sid, id, NoBody, 200, resJson(store[first]), NoCalls, TRUE)
         /\ UNCHANGED <<store, nextId, now, users, sessions, apiKey, created, replaced, deleted>>

\* A lookup made with findByIdAndDelete in place of findById.
RouterGetAndRemove(sid, id) ==
    IF ~IsObjectId(id)
    THEN Fail("GET /:id", sid, id, NoBody, NoStatus, "CastError", NoCalls)
    ELSE IF id \notin DOMAIN store
    THEN Fail("GET /:id", sid, id, NoBody, 404, "Weather record not found", NoCalls)
    ELSE /\ store' = WeatherFindByIdAndDelete(store, id)
         /\ last' = Resp("GET /:id", sid, id, NoBody, 200, resJson(store[id]), NoCalls, TRUE)
         /\ UNCHANGED <<nextId, now, users, sessions, apiKey, created, replaced, deleted>>

\* router.get("/:id")
RouterGetById(sid, id) ==
    IF ~IsObjectId(id)
    THEN Fail("GET /:id", sid, id, NoBody, NoStatus, "CastError", NoCalls)
    ELSE IF id \notin DOMAIN store
    THEN Fail("GET /:id", sid, id, NoBody, 404, "Weather record not found", NoCalls)
    ELSE /\ last' = Resp("GET /:id", sid, id, NoBody, 200, resJson(store[id]), NoCalls, TRUE)
         /\ UNCHANGED <<store, nextId, now, users, sessions, apiKey, created, replaced, deleted>>

GetById ==
    \E sid \in Sids \cup {NoCookie}, id \in ReqIds :
        /\ ensureAuthed(sid)
        /\ RouterGetById(sid, id)
        /\ UNCHANGED dash

\* router.put("/:id")
RouterPut(sid, id, payload) ==
    LET body == expressJson(payload) IN
    IF ~weatherSchemaOk(body)
    THEN Fail("PUT /:id", sid, id, payload, NoStatus, "ZodError", NoCalls)
    ELSE LET parsed == weatherSchemaParse(body) IN
         IF ~IsObjectId(id)
         THEN Fail("PUT /:id", sid, id, payload, NoStatus, "CastError", NoCalls)
         ELSE IF ~WeatherSchemaValid(parsed)
         THEN Fail("PUT /:id", sid, id, payload, NoStatus, "ValidationError", NoCalls)
         ELSE IF id \notin DOMAIN store
         THEN Fail("PUT /:id", sid, id, payload, 404, "Weather record not found", NoCalls)
         ELSE /\ store' = WeatherFindByIdAndUpdate(store, id, parsed, now)
              /\ last' = Resp("PUT /:id", sid, id, payload, 200,
                              resJson(store'[id]), NoCalls, TRUE)
              /\ replaced' = replaced \cup {id}
              /\ UNCHANGED <<nextId, now, users, sessions, apiKey, created, deleted>>

PutById ==
    \E sid \in Sids \cup {NoCookie}, id \in ReqIds, payload \in Records :
        /\ ensureAuthed(sid)
        /\ RouterPut(sid, id, payload)
        /\ UNCHANGED dash

\* A delete that swallows the cast error and reports nothing removed.
RouterDeleteLenient(sid, id) ==
    IF ~IsObjectId(id) \/ id \notin DOMAIN store
    THEN /\ last' = Resp("DELETE /:id", sid, id, NoBody, 200,
                         [deleted |-> BoolV(FALSE), id |-> Undef], NoCalls, TRUE)
         /\ UNCHANGED <<store, nextId, now, users, sessions, apiKey, created, replaced, deleted>>
    ELSE /\ store' = WeatherFindByIdAndDelete(store, id)
         /\ last' = Resp("DELETE /:id", sid, id, NoBody, 200,
                         [deleted |-> BoolV(TRUE), id |-> JsonValue(store[id]._id)],
                         NoCalls, TRUE)
         /\ deleted' = deleted \cup {id}
         /\ created' = [i \in DOMAIN created \ {id} |-> created[i]]
         /\ UNCHANGED <<nextId, now, users, sessions, apiKey, replaced>>

\* A delete that answers 200 for a record that is already gone.
RouterDeleteIdempotent(sid, id) ==
    IF ~IsObjectId(id)
    THEN Fail("DELETE /:id", sid, id, NoBody, NoStatus, "CastError", NoCalls)
    ELSE /\ store' = WeatherFindByIdAndDelete(store, id)
         /\ last' = Resp("DELETE /:id", sid, id, NoBody, 200,
                         [deleted |-> BoolV(TRUE), id |-> JsonValue(ObjectId(id))],
                         NoCalls, TRUE)
         /\ deleted' = deleted \cup {id}
         /\ created' = [i \in DOMAIN created \ {id} |-> created[i]]
         /\ UNCHANGED <<nextId, now, users, sessions, apiKey, replaced>>

\* router.delete("/:id")
RouterDelete(sid, id) ==
    IF ~IsObjectId(id)
    THEN Fail("DELETE /:id", sid, id, NoBody, NoStatus, "CastError", NoCalls)
    ELSE IF id \notin DOMAIN store
    THEN Fail("DELETE /:id", sid, id, NoBody, 404, "Weather record not found", NoCalls)
    ELSE /\ store' = WeatherFindByIdAndDelete(store, id)
         /\ last' = Resp("DELETE /:id", sid, id, NoBody, 200,
                         [deleted |-> BoolV(TRUE), id |-> JsonValue(store[id]._id)],
                         NoCalls, TRUE)
         /\ deleted' = deleted \cup {id}
         /\ created' = [i \in DOMAIN created \ {id} |-> created[i]]
         /\ UNCHANGED <<nextId, now, users, sessions, apiKey, replaced>>

DeleteById ==
    \E sid \in Sids \cup {NoCookie}, id \in ReqIds :
        /\ ensureAuthed(sid)
        /\ RouterDelete(sid, id)
        /\ UNCHANGED dash

\* router.get("/"): find(query).sort({fetchedAt: -1}).limit(Number(limit)).
\* The query's limit is the decimal text of a positive integer, or absent.
DefaultLimit == 50
QueryLimits == {0, 1, 2}
NumberOfLimit(limit) == IF limit = 0 THEN DefaultLimit ELSE limit

\* The limit loadHistory asks for: "/api/weather?limit=50".
HistoryLimit == 50

Matching(city) ==
    {i \in DOMAIN store : Truthy(city) => store[i].city = city}

\* The order of a find without a sort: the documents as they were inserted.
InsertionOrder(ids) ==
    {q \in [1..Cardinality(ids) -> ids] : \A i, j \in DOMAIN q : i < j => q[i] < q[j]}

\* The orders sort({fetchedAt: -1}) can give: records of equal fetchedAt
\* come in an order the store chooses.
SortedByFetchedAt(ids) ==
    {q \in [1..Cardinality(ids) -> ids] :
        /\ \A i, j \in DOMAIN q : i # j => q[i] # q[j]
        /\ \A i, j \in DOMAIN q :
              i < j => store[q[i]].fetchedAt.n >= store[q[j]].fetchedAt.n}

Min(a, b) == IF a < b THEN a ELSE b

RouterGetList(sid, city, limit) ==
    \E q \in SortedByFetchedAt(Matching(city)) :
        LET n == Min(NumberOfLimit(limit), Len(q))
            docs == [i \in 1..n |-> resJson(store[q[i]])]
        IN  /\ last' = Resp("GET /", sid, BadId, [city |-> city, limit |-> limit],
                            200, docs, NoCalls, TRUE)
            /\ UNCHANGED <<store, nextId, now, users, sessions, apiKey, created, replaced, deleted>>

GetList ==
    \E sid \in Sids \cup {NoCookie}, city \in {Undef, Str("London")},
       limit \in QueryLimits :
        /\ ensureAuthed(sid)
        /\ RouterGetList(sid, city, limit)
        /\ UNCHANGED dash

\* ensureAuthed, the other branch: res.redirect("/").
WeatherOps == {"GET /", "POST /", "GET /:id", "PUT /:id", "DELETE /:id", "POST /fetch"}

Redirect(sid, op) ==
    /\ last' = [Resp(op, sid, BadId, NoBody, 302,
                     Str("Found. Redirecting to /"), NoCalls, FALSE)
                EXCEPT !.location = "/"]
    /\ UNCHANGED <<store, nextId, now, users, sessions, apiKey, created, replaced, deleted>>

Redirected ==
    \E sid \in Sids \cup {NoCookie}, op \in WeatherOps :
        /\ ~ensureAuthed(sid)
        /\ Redirect(sid, op)
        /\ UNCHANGED dash

\* A finished OAuth callback: the strategy's verify function stores the
\* user and req.logIn puts its key in the session.
Login ==
    \E sid \in Sids, key \in Keys :
        /\ users' = users \cup {key}
        /\ sessions' = [sessions EXCEPT ![sid] = key]
        /\ UNCHANGED <<store, nextId, now, apiKey, last, created, replaced, deleted, dash>>

\* app.get("/logout"): req.logout and session.destroy.
Logout ==
    \E sid \in Sids :
        /\ sessions[sid] # NoUser
        /\ sessions' = [sessions EXCEPT ![sid] = NoUser]
        /\ UNCHANGED <<store, nextId, now, users, apiKey, last, created, replaced, deleted, dash>>

\* The process is started again: the user Map and the session store are
\* new, the environment is read again; the collection lives in MongoDB.
Restart ==
    /\ users' = {}
    /\ sessions' = [s \in Sids |-> NoUser]
    /\ apiKey' \in BOOLEAN
    /\ UNCHANGED <<store, nextId, now, last, created, replaced, deleted, dash>>

\* Time passes.
Tick ==
    /\ now < MaxTime
    /\ now' = now + 1
    /\ UNCHANGED <<store, nextId, users, sessions, apiKey, last, created, replaced, deleted, dash>>

Next ==
    \/ GetList
    \/ PostWeather
    \/ GetById
    \/ PutById
    \/ DeleteById
    \/ PostFetch
    \/ Redirected
    \/ Login
    \/ Logout
    \/ Restart
    \/ Tick

Spec == Init /\ [][Next]_vars

\* ------------------------------------------------- dashboard: the actions
server == <<store, nextId, now, users, sessions, apiKey, last, created, replaced, deleted>>

\* app.use("/api/weather", ensureAuthed, weatherRouter) for the three
\* requests the dashboard makes.
ApiGetList(sid, limit) ==
    IF ensureAuthed(sid) THEN RouterGetList(sid, Undef, limit)
    ELSE Redirect(sid, "GET /")
ApiPostFetch(sid, city) ==
    IF ensureAuthed(sid) THEN RouterPostFetch(sid, city, Empty)
    ELSE Redirect(sid, "POST /fetch")
ApiDelete(sid, id) ==
    IF ensureAuthed(sid) THEN RouterDelete(sid, id)
    ELSE Redirect(sid, "DELETE /:id")

\* History: the action of page p has sent request op and got outcome out.
Sent(p, op, out) ==
    [p EXCEPT !.reqs = Append(@, op), !.failed = @ \/ ~out.ok]

\* An action starts (history is reset, the number of stored records is
\* noted) and ends.
Started(p, fn, id, city) ==
    [p EXCEPT !.fn = fn, !.id = id, !.city = city, !.failed = FALSE,
              !.reqs = << >>, !.acts = @ + 1,
              !.before = Cardinality(DOMAIN store)]
Ended(p) == [p EXCEPT !.pc = "idle"]

\* loadHistory up to its await, and from the await on.
loadHistoryStart(p) == setStatus(p, "Loading history...", "ok")
loadHistoryEnd(p, out) ==
    IF out.ok
    THEN setStatus(renderHistory(p, out.value), "History loaded.", "ok")
    ELSE setStatus(p, "Failed to load history: " \o out.message, "error")

\* What the caller of loadHistory does when `await loadHistory()` returns.
AfterLoadHistory(p) ==
    CASE p.fn = "handleSearch" ->
            [setStatus(p, "Weather fetched and saved for " \o p.city.s, "ok")
             EXCEPT !.input = << >>]
      [] p.fn = "deleteWeather" -> setStatus(p, "Record deleted.", "ok")
      [] p.fn = "refreshWeather" ->
            setStatus(p, "Weather refreshed for " \o p.city.s, "ok")
      [] OTHER -> p

\* A search that goes on to loadHistory whatever the POST answered.
handleSearchLoadsAnyway(p, out) ==
    [loadHistoryStart(p) EXCEPT !.pc = "search_load"]

\* handleSearch from the POST's await on.
handleSearchAfterPost(p, out) ==
    IF out.ok
    THEN [loadHistoryStart(renderLatest(p, out.value)) EXCEPT !.pc = "search_load"]
    ELSE Ended(setStatus(p, "Failed to fetch weather: " \o out.message, "error"))

\* deleteWeather from the DELETE's await on.
deleteWeatherAfterDelete(p, out) ==
    IF out.ok
    THEN [loadHistoryStart(p) EXCEPT !.pc = "delete_load"]
    ELSE Ended(setStatus(p, "Failed to delete: " \o out.message, "error"))

\* A refresh that goes on to its POST whatever the DELETE answered.
refreshWeatherIgnoringDelete(p, out) == [p EXCEPT !.pc = "refresh_post"]

\* refreshWeather from the DELETE's await on, and from the POST's.
refreshWeatherAfterDelete(p, out) ==
    IF out.ok
    THEN [p EXCEPT !.pc = "refresh_post"]
    ELSE Ended(setStatus(p, "Failed to refresh: " \o out.message, "error"))
refreshWeatherAfterPost(p, out) ==
    IF out.ok
    THEN [loadHistoryStart(renderLatest(p, out.value)) EXCEPT !.pc = "refresh_load"]
    ELSE Ended(setStatus(p, "Failed to refresh: " \o out.message, "error"))

\* The user opens /weather (a page behind ensureAuthed); DOMContentLoaded
\* calls loadHistory.
OpenPage ==
    \E d \in Pages :
        /\ dash[d].pc = "closed"
        /\ isAuthenticated(Cookie(d))
        /\ dash' = [dash EXCEPT ![d] =
                       [loadHistoryStart(Started(@, "loadHistory", BadId, Undef))
                        EXCEPT !.pc = "load"]]
        /\ UNCHANGED server

\* The user edits the city input.
TypeCity ==
    \E d \in Pages, text \in Inputs :
        /\ dash[d].pc = "idle"
        /\ text # dash[d].input
        /\ dash' = [dash EXCEPT ![d].input = text]
        /\ UNCHANGED server

\* The user submits the search form: handleSearch up to its first await.
SubmitSearch ==
    \E d \in Pages :
        LET city == Text(trim(dash[d].input))
            p == Started(dash[d], "handleSearch", BadId, Str(city))
        IN  /\ dash[d].pc = "idle"
            /\ dash[d].acts < MaxActions
            /\ dash' = [dash EXCEPT ![d] =
                           IF city = "" THEN p
                           ELSE [setStatus(p, "Fetching weather for " \o city \o "...", "ok")
                                 EXCEPT !.pc = "search_post"]]
            /\ UNCHANGED server

\* handleSearch: the POST /api/weather/fetch?city= and what follows it.
SearchPost ==
    \E d \in Pages :
        /\ dash[d].pc = "search_post"
        /\ \/ /\ ApiPostFetch(Cookie(d), dash[d].city)
              /\ LET out == fetchJSON(BrowserFetch(last', "POST")) IN
                 dash' = [dash EXCEPT ![d] =
                            handleSearchAfterPost(Sent(@, "POST /fetch", out), out)]
           \/ /\ UNCHANGED server
              /\ dash' = [dash EXCEPT ![d] =
                             handleSearchAfterPost(Sent(@, "POST /fetch", FetchRejected),
                                                   FetchRejected)]

\* The user clicks a row's Delete button and answers the confirm dialog:
\* deleteWeather up to its first await.
ClickDelete ==
    \E d \in Pages :
        /\ dash[d].pc = "idle"
        /\ dash[d].acts < MaxActions
        /\ \E i \in DOMAIN dash[d].rows, confirm \in BOOLEAN :
              LET p == Started(dash[d], "deleteWeather", dash[d].rows[i].id.n,
                               dash[d].rows[i].city)
              IN  dash' = [dash EXCEPT ![d] =
                             IF ~confirm THEN p ELSE [p EXCEPT !.pc = "delete_del"]]
        /\ UNCHANGED server

\* deleteWeather: the DELETE /api/weather/:id and what follows it.
DeleteSend ==
    \E d \in Pages :
        /\ dash[d].pc = "delete_del"
        /\ \/ /\ ApiDelete(Cookie(d), dash[d].id)
              /\ LET out == fetchJSON(BrowserFetch(last', "DELETE")) IN
                 dash' = [dash EXCEPT ![d] =
                            deleteWeatherAfterDelete(Sent(@, "DELETE /:id", out), out)]
           \/ /\ UNCHANGED server
              /\ dash' = [dash EXCEPT ![d] =
                             deleteWeatherAfterDelete(Sent(@, "DELETE /:id", FetchRejected),
                                                      FetchRejected)]

\* The user clicks a row's Refresh button: refreshWeather up to its first
\* await.
ClickRefresh ==
    \E d \in Pages :
        /\ dash[d].pc = "idle"
        /\ dash[d].acts < MaxActions
        /\ \E i \in DOMAIN dash[d].rows :
              LET p == Started(dash[d], "refreshWeather", dash[d].rows[i].id.n,
                               dash[d].rows[i].city)
              IN  dash' = [dash EXCEPT ![d] =
                             [setStatus(p, "Refreshing weather for " \o p.city.s \o "...", "ok")
                              EXCEPT !.pc = "refresh_del"]]
        /\ UNCHANGED server

\* refreshWeather: the DELETE /api/weather/:id and what follows it.
RefreshDelete ==
    \E d \in Pages :
        /\ dash[d].pc = "refresh_del"
        /\ \/ /\ ApiDelete(Cookie(d), dash[d].id)
              /\ LET out == fetchJSON(BrowserFetch(last', "DELETE")) IN
                 dash' = [dash EXCEPT ![d] =
                            refreshWeatherAfterDelete(Sent(@, "DELETE /:id", out), out)]
           \/ /\ UNCHANGED server
              /\ dash' = [dash EXCEPT ![d] =
                             refreshWeatherAfterDelete(Sent(@, "DELETE /:id", FetchRejected),
                                                       FetchRejected)]

\* refreshWeather: the POST /api/weather/fetch?city= and what follows it.
RefreshPost ==
    \E d \in Pages :
        /\ dash[d].pc = "refresh_post"
        /\ \/ /\ ApiPostFetch(Cookie(d), dash[d].city)
              /\ LET out == fetchJSON(BrowserFetch(last', "POST")) IN
                 dash' = [dash EXCEPT ![d] =
                            refreshWeatherAfterPost(Sent(@, "POST /fetch", out), out)]
           \/ /\ UNCHANGED server
              /\ dash' = [dash EXCEPT ![d] =
                             refreshWeatherAfterPost(Sent(@, "POST /fetch", FetchRejected),
                                                     FetchRejected)]

\* loadHistory: the GET /api/weather?limit=50, then the rest of loadHistory
\* and of the action that awaited it.
LoadHistory ==
    \E d \in Pages :
        /\ dash[d].pc \in {"load", "search_load", "delete_load", "refresh_load"}
        /\ \/ /\ ApiGetList(Cookie(d), HistoryLimit)
              /\ LET out == fetchJSON(BrowserFetch(last', "GET")) IN
                 dash' = [dash EXCEPT ![d] =
                            Ended(AfterLoadHistory(
                                loadHistoryEnd(Sent(@, "GET /", out), out)))]
           \/ /\ UNCHANGED server
              /\ dash' = [dash EXCEPT ![d] =
                             Ended(AfterLoadHistory(
                                 loadHistoryEnd(Sent(@, "GET /", FetchRejected),
                                                FetchRejected)))]

DashNext ==
    \/ OpenPage
    \/ TypeCity
    \/ SubmitSearch
    \/ SearchPost
    \/ ClickDelete
    \/ DeleteSend
    \/ ClickRefresh
    \/ RefreshDelete
    \/ RefreshPost
    \/ LoadHistory
    \/ Login
    \/ Logout
    \/ Tick

DashSpec == Init /\ [][DashNext]_vars

\* ================================================================ properties
ByIdOps == {"GET /:id", "PUT /:id", "DELETE /:id"}
ManualBodies(rs) == {Manual(r) : r \in rs}

\* The request of r runs the normalizer.
IsFetchMode(r) ==
    \/ r.op = "POST /fetch"
    \/ r.op = "POST /" /\ ~Truthy(expressJson(r.sent).manual)

\* The schema fields of response body b are those of record p, in JSON form.
SameFields(b, p) == \A f \in SchemaFields : b[f] = expressJson(p)[f]

\* C1: every record in the store satisfies the validation schema: a string
\* city, a country of two characters or more, numeric coordinates and
\* temp/feelsLike/windSpeed, integer humidity/pressure, string
\* condition/description and a Date fetchedAt.
C1_StoredRecordsPassSchema ==
    \A id \in DOMAIN store : weatherSchemaOk(store[id])

C1_Witness ==
    /\ last.op = "POST /" /\ last.status = 201
    /\ Cardinality(DOMAIN store) >= 2

\* C2: a request to a weather endpoint whose session does not resolve to a
\* user of the directory is redirected to "/" without reaching the router:
\* the store is unchanged and no provider call is made; a request reaches a
\* handler only when its session names a user of the directory.
C2_UnauthenticatedRedirected ==
    [][(last' # last /\ last'.op \in WeatherOps) =>
          /\ ~isAuthenticated(last'.sid) =>
                /\ last'.status = 302 /\ last'.location = "/"
                /\ ~last'.reached /\ last'.calls = NoCalls
                /\ store' = store /\ nextId' = nextId
          /\ last'.reached =>
                /\ last'.sid \in Sids
                /\ sessions[last'.sid] \in users]_vars

C2_Witness ==
    /\ last.op = "POST /fetch" /\ last.status = 302
    /\ apiKey /\ DOMAIN store # {} /\ users # {}

\* C3: a POST /weather in manual mode with a valid record P, sent as JSON,
\* is answered 201 with a record whose schema fields equal P, and adds
\* exactly that one record to the store.
C3_ManualPostCreates ==
    [][(/\ last' # last /\ last'.reached
        /\ last'.op = "POST /"
        /\ last'.sent \in ManualBodies(ValidRecords)
        /\ nextId <= MaxIds) =>
          /\ last'.status = 201
          /\ SameFields(last'.body, last'.sent)
          /\ last'.id \notin DOMAIN store
          /\ DOMAIN store' = DOMAIN store \cup {last'.id}
          /\ \A i \in DOMAIN store : store'[i] = store[i]
          /\ resJson(store'[last'.id]) = last'.body]_vars

\* C4: a GET by the id a 201 response gave returns 200 and the record of
\* that response, as long as no PUT or DELETE has succeeded on that id.
C4_GetReturnsCreated ==
    (/\ last.op = "GET /:id" /\ last.reached
     /\ last.id \in DOMAIN created
     /\ last.id \notin replaced) =>
        /\ last.status = 200
        /\ last.body = created[last.id]

C4_Witness ==
    /\ last.op = "GET /:id" /\ last.status = 200
    /\ last.id \in DOMAIN created
    /\ deleted # {}

\* C5: once a DELETE of an id has answered 200, the id is never in the
\* store again and every later GET or DELETE of it answers 404.
C5_DeletedStaysGone ==
    [][/\ deleted \cap DOMAIN store' = {}
       /\ (/\ last' # last /\ last'.reached
           /\ last'.op \in {"GET /:id", "DELETE /:id"}
           /\ last'.id \in deleted) => last'.status = 404]_vars

C5_Witness ==
    /\ last.op = "DELETE /:id" /\ last.status = 404
    /\ last.id \in deleted
    /\ DOMAIN store # {}

\* C6: a DELETE answered 200 removes the record of that id and no other,
\* leaves every other record as it was, and answers {deleted: true, id}.
C6_DeleteRemovesExactlyOne ==
    [][(last' # last /\ last'.op = "DELETE /:id" /\ last'.status = 200) =>
          /\ last'.id \in DOMAIN store
          /\ DOMAIN store' = DOMAIN store \ {last'.id}
          /\ \A i \in DOMAIN store' : store'[i] = store[i]
          /\ last'.body = [deleted |-> BoolV(TRUE),
                           id |-> [k |-> "str", s |-> "oid", n |-> last'.id]]]_vars

C6_Witness ==
    /\ last.op = "DELETE /:id" /\ last.status = 200
    /\ DOMAIN store # {}

\* C7: GET, PUT with a valid record and DELETE on a well-formed id that is
\* not in the store are answered 404 and leave the store unchanged.
C7_AbsentIdIs404 ==
    [][(/\ last' # last /\ last'.reached
        /\ last'.op \in ByIdOps
        /\ IsObjectId(last'.id) /\ last'.id \notin DOMAIN store
        /\ last'.op = "PUT /:id" => last'.sent \in ValidRecords) =>
          /\ last'.status = 404
          /\ store' = store]_vars

\* C8: a PUT of a valid record, sent as JSON, on an id in the store is
\* answered 200 with a record whose schema fields equal the body and whose
\* id is the id of the path; the stored record holds those fields and no
\* other record changes.
C8_PutReplaces ==
    [][(/\ last' # last /\ last'.reached
        /\ last'.op = "PUT /:id"
        /\ last'.id \in DOMAIN store
        /\ last'.sent \in ValidRecords) =>
          /\ last'.status = 200
          /\ SameFields(last'.body, last'.sent)
          /\ last'.body._id = JsonValue(ObjectId(last'.id))
          /\ DOMAIN store' = DOMAIN store
          /\ SameFields(resJson(store'[last'.id]), last'.sent)
          /\ \A i \in DOMAIN store \ {last'.id} : store'[i] = store[i]]_vars

\* C9: a manual POST /weather or a PUT whose body fails the validation
\* schema is answered 400 and leaves the store unchanged.
C9_InvalidBodyIs400 ==
    [][(/\ last' # last /\ last'.reached
        /\ \/ last'.op = "PUT /:id" /\ last'.sent \in InvalidRecords
           \/ last'.op = "POST /" /\ last'.sent \in ManualBodies(InvalidRecords)) =>
          /\ last'.status = 400
          /\ store' = store]_vars

\* C10: with the provider key not set, a request in fetch mode is answered
\* 500 without a provider call and without a write; the check is made when
\* the request is handled, and no request outside fetch mode is ever
\* answered with the missing-key error or calls the provider: a list, and a
\* GET or DELETE of a stored id, are answered 200 with or without the key.
C10_MissingKey ==
    [][(last' # last /\ last'.reached) =>
          /\ (IsFetchMode(last') /\ ~apiKey) =>
                /\ last'.status = 500
                /\ last'.error = "Missing OPENWEATHER_API_KEY"
                /\ last'.calls = NoCalls
                /\ store' = store /\ nextId' = nextId
          /\ (IsFetchMode(last') /\ apiKey) =>
                last'.error # "Missing OPENWEATHER_API_KEY"
          /\ ~IsFetchMode(last') =>
                /\ last'.error # "Missing OPENWEATHER_API_KEY"
                /\ last'.calls = NoCalls
          /\ (/\ last'.op \in {"GET /:id", "DELETE /:id"}
              /\ last'.id \in DOMAIN store) => last'.status = 200
          /\ last'.op = "GET /" => last'.status = 200]_vars

C10_Witness ==
    /\ ~apiKey
    /\ last.op = "POST /fetch" /\ last.status = 500
    /\ last.error = "Missing OPENWEATHER_API_KEY"
    /\ DOMAIN store # {}

\* C11 (as stated): every request in fetch mode makes exactly one provider
\* request, and when that request fails the answer is an error status and no
\* record is created.
C11_ExactlyOneProviderCall ==
    [][(last' # last /\ last'.reached /\ IsFetchMode(last')) =>
          /\ Len(last'.calls) = 1
          /\ ~last'.calls[1].ok => (last'.status >= 400 /\ store' = store)]_vars

\* C11: a request in fetch mode makes one provider request when the provider
\* key is set and none when it is not, so never more than one (no retry);
\* when the provider request fails (transport error or non-2xx answer) the
\* request is answered with a 4xx or 5xx status and no record is created.
C11_AtMostOneProviderCall ==
    [][(last' # last /\ last'.reached /\ IsFetchMode(last')) =>
          /\ Len(last'.calls) = (IF apiKey THEN 1 ELSE 0)
          /\ \A i \in DOMAIN last'.calls :
                ~last'.calls[i].ok =>
                    /\ last'.status >= 400 /\ last'.status < 600
                    /\ store' = store /\ nextId' = nextId]_vars

C11_Witness ==
    /\ last.op = "POST /" /\ last.reached
    /\ Len(last.calls) = 1 /\ last.calls[1].status = 404 /\ last.status = 404
    /\ DOMAIN store # {}

\* C12: POST /weather/fetch?city=C runs the normalizer whatever the body
\* says (one provider request when the key is set, a manual flag is not
\* read) and has one of two outcomes: 201 with one new record, stored under
\* the name the provider returned, or a 4xx/5xx status with the store
\* unchanged.
C12_FetchOutcomes ==
    [][(last' # last /\ last'.reached /\ last'.op = "POST /fetch") =>
          /\ apiKey => Len(last'.calls) = 1
          /\ \/ /\ last'.status = 201
                /\ Len(last'.calls) = 1 /\ last'.calls[1].ok
                /\ last'.id \notin DOMAIN store
                /\ DOMAIN store' = DOMAIN store \cup {last'.id}
                /\ \A i \in DOMAIN store : store'[i] = store[i]
                /\ store'[last'.id].city = last'.calls[1].name
                /\ last'.body = resJson(store'[last'.id])
             \/ /\ last'.status >= 400 /\ last'.status < 600
                /\ store' = store /\ nextId' = nextId]_vars

C12_Witness ==
    /\ last.op = "POST /fetch" /\ last.status = 201
    /\ last.sent.city = Str("london") /\ last.body.city = Str("London")
    /\ last.sent.body = Manual(Testville)
    /\ Cardinality(DOMAIN store) >= 2

\* C13: GET /weather?city=&limit=L, L a positive integer or absent (then
\* 50), is answered 200 with min(L, n) distinct records, n the number of
\* stored records whose city is exactly the filter's (all records without a
\* filter); they are in descending fetchedAt order and no matching record
\* left out has a fetchedAt greater than one returned.
C13_ListLimitAndOrder ==
    [][(last' # last /\ last'.reached /\ last'.op = "GET /") =>
          LET b == last'.body
              city == last'.sent.city
              L == IF last'.sent.limit = 0 THEN 50 ELSE last'.sent.limit
              M == {i \in DOMAIN store : city # Undef => store[i].city = city}
              n == Cardinality(M)
          IN  /\ last'.status = 200
              /\ Len(b) = (IF L < n THEN L ELSE n)
              /\ \A k \in DOMAIN b : \E i \in M : b[k] = resJson(store[i])
              /\ \A j, k \in DOMAIN b :
                    j < k => /\ b[j]._id # b[k]._id
                             /\ b[j].fetchedAt.n >= b[k].fetchedAt.n
              /\ \A i \in M :
                    (\A k \in DOMAIN b : b[k]._id.n # i) =>
                        \A k \in DOMAIN b : b[k].fetchedAt.n >= store[i].fetchedAt.n]_vars

C13_Witness ==
    /\ last.op = "GET /" /\ last.status = 200
    /\ last.sent.limit = 1 /\ last.sent.city = Undef
    /\ Len(last.body) = 1
    /\ Cardinality(DOMAIN store) = 2
    /\ \E i \in DOMAIN store :
          /\ store[i].fetchedAt.n < last.body[1].fetchedAt.n
          /\ i < last.body[1]._id.n

\* C14: a GET or DELETE by an id that is not a well-formed ObjectId is
\* answered with a status of 400 or more, never 2xx, and leaves the store
\* as it was.
C14_MalformedIdIsAnError ==
    [][(/\ last' # last /\ last'.reached
        /\ last'.op \in {"GET /:id", "DELETE /:id"}
        /\ last'.id = BadId) =>
          /\ last'.status >= 400 /\ last'.status < 600
          /\ store' = store /\ nextId' = nextId]_vars

C14_Witness ==
    /\ last.op = "DELETE /:id" /\ last.reached
    /\ last.id = BadId /\ last.status = 500
    /\ DOMAIN store # {}

\* C15: a request by a malformed id fails with the cast error (or, for a
\* PUT, the validation error raised before the id is read) and is never
\* answered with the 404 "Weather record not found" that a GET or DELETE
\* of a well-formed id missing from the store gets.
C15_InvalidIdIsNotNotFound ==
    [][(last' # last /\ last'.reached /\ last'.op \in ByIdOps) =>
          /\ last'.id = BadId =>
                /\ last'.status # 404
                /\ last'.error \in {"CastError", "ZodError"}
                /\ last'.op # "PUT /:id" => last'.error = "CastError"
          /\ (/\ last'.id # BadId /\ last'.id \notin DOMAIN store
              /\ last'.op # "PUT /:id") =>
                /\ last'.status = 404
                /\ last'.error = "Weather record not found"]_vars

C15_Witness ==
    /\ last.op = "GET /:id" /\ last.reached
    /\ last.id = BadId /\ last.error = "CastError"
    /\ deleted # {}

\* C16: the store holds each record under its own _id, so no two records
\* share one; a create (201) gives an id that no record in the store has,
\* the one the store generates, whatever _id the request body carries; no
\* request changes the _id of a record that stays in the store, and an
\* update keeps the _id of the document it is applied to whatever the body.
C16_IdsUniqueAndStoreAssigned ==
    [][/\ \A i \in DOMAIN store' : store'[i]._id = ObjectId(i)
       /\ \A i \in DOMAIN store \cap DOMAIN store' : store'[i]._id = store[i]._id
       /\ \A i \in DOMAIN store', r \in {KeepMe, TestvilleWithId} :
             UpdatedDoc(store'[i], weatherSchemaParse(r), now)._id = store'[i]._id
       /\ (last' # last /\ last'.status = 201) =>
             /\ last'.id \notin DOMAIN store
             /\ last'.id = nextId
             /\ DOMAIN store' = DOMAIN store \cup {last'.id}
             /\ last'.body._id = JsonValue(ObjectId(last'.id))
       /\ (last' # last /\ last'.op = "PUT /:id") =>
             DOMAIN store' = DOMAIN store]_vars

C16_Witness ==
    /\ last.op = "POST /" /\ last.status = 201
    /\ last.sent._id = CallerId
    /\ last.body._id # CallerId
    /\ \E i \in DOMAIN store : resJson(store[i])._id = CallerId

\* The candidate of request r (manual payload, PUT body or normalizer
\* output) has a missing or empty city.
CandidateWithoutCity(r) ==
    \/ /\ r.op \in {"POST /", "POST /fetch"}
       /\ Len(r.calls) = 1 /\ r.calls[1].ok
       /\ r.calls[1].name \in {Undef, Str("")}
    \/ /\ r.op = "POST /" /\ Truthy(expressJson(r.sent).manual)
       /\ r.sent.city \in {Undef, Str("")}
    \/ /\ r.op = "PUT /:id"
       /\ r.sent.city \in {Undef, Str("")}

\* C17: every record in the store has a city that is a non-empty string,
\* and a request whose candidate has an empty or missing city is answered
\* with an error and writes nothing.
C17_NoEmptyCity ==
    [][/\ \A i \in DOMAIN store' :
             IsString(store'[i].city) /\ store'[i].city.s # ""
       /\ (last' # last /\ last'.reached /\ CandidateWithoutCity(last')) =>
             /\ last'.status >= 400
             /\ store' = store /\ nextId' = nextId]_vars

C17_Witness ==
    /\ last.op = "POST /fetch" /\ last.reached
    /\ Len(last.calls) = 1 /\ last.calls[1].ok /\ last.calls[1].name = EmptyName.name
    /\ last.error = "ValidationError"
    /\ DOMAIN store # {}

\* C18: a GET /weather or GET /weather/:id leaves the store exactly as it
\* was (the same records with the same fields, and no id used up),
\* whatever its query or id and whatever the status of the answer.
C18_GetsLeaveStoreAlone ==
    [][(last' # last /\ last'.op \in {"GET /", "GET /:id"}) =>
          /\ store' = store
          /\ nextId' = nextId]_vars

C18_Witness ==
    /\ last.op = "GET /:id" /\ last.reached
    /\ last.status = 200
    /\ last.id \in DOMAIN store
    /\ store[last.id].city = Str("Paris")

\* C19: a dashboard action (load history, search-and-save, delete, refresh)
\* one of whose requests failed, by a response that is not ok or by a
\* rejected fetch, has ended with the status element showing a message of
\* type "error".
C19_FailedActionShowsError ==
    \A d \in Pages :
        (dash[d].pc = "idle" /\ dash[d].failed) =>
            dash[d].status.type = "status error"

\* C20: when a Refresh of a row for city C whose DELETE succeeded ends,
\* with a success or an error status, the store holds a record for C.
C20_RefreshKeepsRecord ==
    [][\A d \in Pages :
          (/\ dash[d].fn = "refreshWeather"
           /\ dash[d].pc # "idle" /\ dash'[d].pc = "idle"
           /\ Len(dash'[d].reqs) >= 2) =>
              \E i \in DOMAIN store' : store'[i].city = dash[d].city]_vars

\* The body of POST /weather without its manual key.
RestOf(payload) ==
    LET body == expressJson(payload) IN [f \in DOMAIN body \ {"manual"} |-> body[f]]

\* What a POST /weather step does when it asks the provider asked times in
\* fetch mode: manual mode makes no provider call and rejects a body that
\* fails the schema without writing; fetch mode asks for the body's city when
\* that is truthy, else DEFAULT_CITY, else "Philadelphia"; 201 carries the
\* record just created, which passes the schema; anything else writes nothing.
PostWeatherModes(asked) ==
       (last' # last /\ last'.reached /\ last'.op = "POST /") =>
          LET body == expressJson(last'.sent)
              rest == RestOf(last'.sent)
          IN  /\ Truthy(body.manual) =>
                    /\ last'.calls = NoCalls
                    /\ ~weatherSchemaOk(rest) =>
                          last'.status >= 400 /\ store' = store
              /\ ~Truthy(body.manual) =>
                    /\ Len(last'.calls) = asked
                    /\ \A i \in DOMAIN last'.calls :
                          \E defaultCity \in DefaultCities :
                             last'.calls[i].q =
                                IF Truthy(rest.city) THEN rest.city
                                ELSE IF Truthy(defaultCity) THEN defaultCity
                                ELSE Str("Philadelphia")
              /\ last'.status = 201 =>
                    /\ last'.id \notin DOMAIN store
                    /\ DOMAIN store' = DOMAIN store \cup {last'.id}
                    /\ last'.body = resJson(store'[last'.id])
                    /\ weatherSchemaOk(store'[last'.id])
              /\ last'.status # 201 => store' = store /\ nextId' = nextId

\* C21 (as stated): POST /weather in manual mode validates the body without
\* its manual key and makes no provider call; otherwise it calls the
\* normalizer exactly once, with the body's city, else DEFAULT_CITY, else
\* "Philadelphia"; the candidate is validated before the create and success
\* is 201 with the created record.
C21_AlwaysOneNormalizerCall == [][PostWeatherModes(1)]_vars

\* C21: POST /weather chooses its mode as stated above, except that in fetch
\* mode the provider is asked exactly once when OPENWEATHER_API_KEY is set
\* and not at all when it is missing.
C21_ModeFromBody == [][PostWeatherModes(IF apiKey THEN 1 ELSE 0)]_vars

C21_Witness ==
    /\ last.op = "POST /" /\ last.reached /\ last.status = 201
    /\ last.sent = Empty
    /\ Len(last.calls) = 1 /\ last.calls[1].q = Str("Rome")
    /\ \E i \in DOMAIN store : last.body = resJson(store[i])

\* --------------------------------------------------- normalizer, on its own
\* The entries of a provider response that fetchWeather reads through an
\* optional chain, and the entry of the result each one fills.
OptionalKeys ==
    {"country", "lon", "lat", "temp", "feels_like", "humidity", "pressure",
     "speed", "main", "description"}
ProviderKeys == OptionalKeys \cup {"name", "dt"}

\* The shapes an entry of the response can have: not there, null, present
\* with the zero of its type (0 or ""), present with a value.
Shapes == {"absent", "null", "zero", "value"}
Sample(key) == IF key = "dt" THEN Num(0) ELSE London[key]
Shaped(key, shape) ==
    CASE shape = "absent" -> Undef
      [] shape = "null" -> Null
      [] shape = "zero" -> (IF IsString(Sample(key)) THEN Str("") ELSE Num(0))
      [] OTHER -> Sample(key)

\* The responses given to the normalizer: at most MaxOdd entries are not
\* plain values, or every entry has the same shape. data.dt is the
\* provider's own timestamp, which fetchWeather never reads.
NormalizerInputs ==
    UNION {{[key \in ProviderKeys |->
                Shaped(key, IF key \in odd THEN shapes[key] ELSE "value")] :
              shapes \in [odd -> Shapes \ {"value"}]} :
           odd \in {S \in SUBSET ProviderKeys : Cardinality(S) <= MaxOdd}}
    \cup {[key \in ProviderKeys |-> Shaped(key, shape)] : shape \in Shapes}

NormalizerInit ==
    /\ dash = [d \in OnePage |-> ClosedPage]
    /\ store = << >>
    /\ nextId = 1
    /\ now = 0
    /\ users = {}
    /\ sessions = [s \in Sids |-> NoUser]
    /\ apiKey = TRUE
    /\ last \in {[op |-> "axios.get", data |-> data, result |-> NoBody, at |-> 0] :
                    data \in NormalizerInputs}
    /\ created = << >>
    /\ replaced = {}
    /\ deleted = {}

\* fetchWeather's return statement, applied to the response in hand.
Normalize ==
    /\ last.op = "axios.get"
    /\ last' = [op |-> "fetchWeather", data |-> last.data,
                result |-> fetchWeather(last.data, now), at |-> now]
    /\ UNCHANGED <<store, nextId, now, users, sessions, apiKey, created, replaced, deleted, dash>>

NormalizerNext ==
    \/ Normalize
    \/ Tick

NormalizerSpec == NormalizerInit /\ [][NormalizerNext]_vars

\* The default of each optional entry and the field of the result it fills.
DefaultOf(key) == IF key \in {"main", "description"} THEN Str("Unknown")
                  ELSE IF key = "country" THEN Str("NA") ELSE Num(0)
FieldOf(record, key) ==
    CASE key = "lon" -> record.coordinates.lon
      [] key = "lat" -> record.coordinates.lat
      [] key = "feels_like" -> record.feelsLike
      [] key = "speed" -> record.windSpeed
      [] key = "main" -> record.condition
      [] OTHER -> record[key]

\* C22: in the record fetchWeather returns, every optional field that is
\* absent or null in the provider response has its default ("NA", 0,
\* "Unknown"), every field that is present, a present 0 or "" included, is
\* copied unchanged, city is the provider's name, and fetchedAt is the time
\* of the normalization whatever time the provider sent.
C22_DefaultsAndCopies ==
    last.op = "fetchWeather" =>
        /\ last.result.city = last.data.name
        /\ \A key \in OptionalKeys :
              FieldOf(last.result, key) =
                 IF last.data[key] \in {Undef, Null} THEN DefaultOf(key)
                 ELSE last.data[key]
        /\ last.result.fetchedAt = DateV(last.at)

C22_Witness ==
    /\ last.op = "fetchWeather"
    /\ last.data.temp = Num(0) /\ last.result.temp = Num(0)
    /\ last.data.country = Null /\ last.result.country = Str("NA")
    /\ last.data.dt = Num(0) /\ last.at = 1

\* s is an initial part of t.
IsPrefix(s, t) == Len(s) <= Len(t) /\ \A i \in DOMAIN s : s[i] = t[i]

C24_SearchPostsThenLoads ==
    [][\A d \in Pages :
          dash'[d].fn = "handleSearch" =>
             /\ IsPrefix(dash'[d].reqs, <<"POST /fetch", "GET /">>)
             /\ dash'[d].pc = "search_post" =>
                   /\ dash'[d].reqs = << >>
                   /\ dash'[d].city = Str(Text(trim(dash'[d].input)))
                   /\ dash'[d].city.s # ""
             /\ (dash[d].pc = "search_post" /\ dash'[d].pc = "search_load") =>
                   /\ dash'[d].reqs = <<"POST /fetch">> /\ ~dash'[d].failed
                   /\ last'.op = "POST /fetch" /\ last'.status = 201
                   /\ last'.sent.city = dash[d].city
             /\ (dash[d].pc = "search_post" /\ dash'[d].pc = "idle") =>
                   /\ dash'[d].reqs = <<"POST /fetch">> /\ dash'[d].failed
                   /\ dash'[d].input = dash[d].input
                   /\ dash'[d].status.type = "status error"
             /\ (dash[d].pc = "search_load" /\ dash'[d].pc = "idle") =>
                   /\ dash'[d].reqs = <<"POST /fetch", "GET /">>
                   /\ (last' # last /\ last'.reached) =>
                         last'.op = "GET /" /\ last'.sent.limit = HistoryLimit
                   /\ ~dash'[d].failed =>
                         /\ dash'[d].status =
                               [message |-> "Weather fetched and saved for "
                                               \o dash[d].city.s,
                                type |-> "status ok"]
                         /\ dash'[d].input = << >>]_vars

C24_Witness ==
    \E d \in Pages :
        /\ dash[d].fn = "handleSearch" /\ dash[d].pc = "idle"
        /\ dash[d].reqs = <<"POST /fetch", "GET /">> /\ ~dash[d].failed
        /\ dash[d].status.message = "Weather fetched and saved for london"
        /\ dash[d].input = << >>
        /\ \E i \in DOMAIN store : store[i].city = Str("London")

\* C25: a dashboard action the user does not go through with (deleteWeather
\* with the confirm dialog cancelled, handleSearch with an empty or
\* all-blank city input) returns at once: no request is sent, and the store,
\* the status message, the table, the card and the input stay as they were.
\* A blank search is always such an action.
C25_UnconfirmedActionDoesNothing ==
    [][\A d \in Pages :
          /\ (/\ dash[d].pc = "idle" /\ dash'[d].pc = "idle"
              /\ dash'[d].acts = dash[d].acts + 1) =>
                /\ \/ dash'[d].fn = "deleteWeather"
                   \/ dash'[d].fn = "handleSearch"
                        /\ \A i \in DOMAIN dash[d].input : dash[d].input[i] = " "
                /\ dash'[d].reqs = << >>
                /\ last' = last /\ store' = store /\ nextId' = nextId
                /\ dash'[d].status = dash[d].status
                /\ dash'[d].rows = dash[d].rows
                /\ dash'[d].latest = dash[d].latest
                /\ dash'[d].input = dash[d].input
          /\ (/\ dash'[d].acts = dash[d].acts + 1
              /\ dash'[d].fn = "handleSearch"
              /\ \A i \in DOMAIN dash[d].input : dash[d].input[i] = " ") =>
                dash'[d].pc = "idle"]_vars

C25_Witness ==
    \E d \in Pages :
        /\ dash[d].fn = "deleteWeather" /\ dash[d].pc = "idle"
        /\ dash[d].reqs = << >>
        /\ dash[d].id \in DOMAIN store
        /\ dash[d].status.message = "Weather fetched and saved for london"

\* ----------------------------------------------------- fetchJSON, on its own
\* The responses fetch() is taken to resolve with: ok or not, with or
\* without a body text and a status text, with a body that is JSON or not.
FetchResponses ==
    {[ok |-> ok, statusText |-> statusText, text |-> text, parses |-> parses,
      json |-> IF parses THEN json ELSE NoBody] :
        ok \in BOOLEAN, statusText \in {"", "OK", "Not Found"},
        text \in {"", "Bad Request", "<!DOCTYPE html>"},
        parses \in BOOLEAN, json \in {Null, Str("success")}}
NoResponse ==
    [ok |-> FALSE, statusText |-> "", text |-> "", parses |-> FALSE, json |-> NoBody]

\* One call of fetchJSON: whether fetch() resolves, the response it resolves
\* with, how many times fetch was called and how the call ended.
FetchCalls ==
    {[op |-> "fetchJSON", pc |-> "call", resolves |-> TRUE, res |-> res,
      fetches |-> 0, out |-> Thrown("")] : res \in FetchResponses}
    \cup {[op |-> "fetchJSON", pc |-> "call", resolves |-> FALSE, res |-> NoResponse,
           fetches |-> 0, out |-> Thrown("")]}

FetchInit ==
    /\ dash = [d \in OnePage |-> ClosedPage]
    /\ store = << >>
    /\ nextId = 1
    /\ now = 0
    /\ users = {}
    /\ sessions = [s \in Sids |-> NoUser]
    /\ apiKey = TRUE
    /\ last \in FetchCalls
    /\ created = << >>
    /\ replaced = {}
    /\ deleted = {}

\* const res = await fetch(url, options): the call, which rejects or resolves.
AwaitFetch ==
    /\ last.pc = "call"
    /\ last' = IF last.resolves
               THEN [last EXCEPT !.pc = "res", !.fetches = @ + 1]
               ELSE [last EXCEPT !.pc = "done", !.fetches = @ + 1, !.out = FetchRejected]
    /\ UNCHANGED <<store, nextId, now, users, sessions, apiKey, created, replaced, deleted, dash>>

\* The rest of fetchJSON, from the response on.
SettleFetch ==
    /\ last.pc = "res"
    /\ last' = [last EXCEPT !.pc = "done", !.out = fetchJSON(last.res)]
    /\ UNCHANGED <<store, nextId, now, users, sessions, apiKey, created, replaced, deleted, dash>>

FetchNext ==
    \/ AwaitFetch
    \/ SettleFetch

FetchSpec == FetchInit /\ [][FetchNext]_vars

\* What a finished call of fetchJSON has done when a response that is ok
\* and satisfies readable is returned as its parsed body: fetch was called
\* once, a response that is not ok ends in an error whose message is the
\* body text, or the status text when the body text is empty, and a
\* rejected fetch ends in an error.
FetchJSONOutcome(readable) ==
    last.pc = "done" =>
        /\ last.fetches = 1
        /\ ~last.resolves => ~last.out.ok
        /\ (last.resolves /\ last.res.ok /\ readable) =>
              last.out = Returned(last.res.json)
        /\ (last.resolves /\ ~last.res.ok) =>
              /\ ~last.out.ok
              /\ last.out.message =
                    IF last.res.text # "" THEN last.res.text ELSE last.res.statusText

\* C26 (as stated): fetchJSON calls fetch exactly once; it returns the parsed
\* JSON body when the response is ok; when the response is not ok it fails
\* with the body text as message, or the status text when the body text is
\* empty, and returns no value.
C26_OkAlwaysReturns == FetchJSONOutcome(TRUE)

\* C26: fetchJSON behaves as stated above, except that an ok response is returned only when
\* its body parses as JSON; an ok response whose body is not JSON (the index
\* page a redirected request ends on) makes fetchJSON fail.
C26_FetchJSON ==
    /\ FetchJSONOutcome(last.res.parses)
    /\ (last.pc = "done" /\ last.resolves /\ last.res.ok /\ ~last.res.parses) =>
          ~last.out.ok

C26_Witness ==
    /\ last.pc = "done" /\ last.resolves
    /\ ~last.res.ok /\ last.res.text = "" /\ last.res.statusText = "Not Found"
    /\ last.out = Thrown("Not Found")

\* ------------------------------------------------ two dashboards, one record
\* The collection holds one record, inserted before the ids this model
\* hands out, and two pages of the same logged-in session have loaded their
\* history and show its row.
SeedId == MaxIds + 1
SeedStore ==
    WeatherCreate(<< >>, weatherSchemaParse(fetchWeather(London, 0)), SeedId, 0)
LoadedPage ==
    LET out == Returned(<<resJson(SeedStore[SeedId])>>) IN
    Ended(loadHistoryEnd(
        Sent(loadHistoryStart(Started(ClosedPage, "loadHistory", BadId, Undef)),
             "GET /", out), out))

RaceInit ==
    /\ store = SeedStore
    /\ nextId = 1
    /\ now = 0
    /\ users = Keys
    /\ sessions = [s \in Sids |-> CHOOSE key \in Keys : TRUE]
    /\ apiKey = TRUE
    /\ last = Resp("none", NoCookie, BadId, NoBody, 0, NoBody, NoCalls, FALSE)
    /\ created = [i \in {SeedId} |-> resJson(SeedStore[SeedId])]
    /\ replaced = {}
    /\ deleted = {}
    /\ dash = [d \in TwoPages |-> LoadedPage]

RaceNext ==
    \/ ClickRefresh
    \/ RefreshDelete
    \/ RefreshPost
    \/ LoadHistory

RaceSpec == RaceInit /\ [][RaceNext]_vars

\* The DELETE of the refresh that page p runs or ran last has succeeded.
DeleteSucceeded(p) ==
    /\ p.fn = "refreshWeather"
    /\ \/ p.pc \in {"refresh_post", "refresh_load"}
       \/ p.pc = "idle" /\ Len(p.reqs) >= 2

\* C27: when two dashboard pages run Refresh on the same record id, in any
\* interleaving of their requests, at most one of them has its DELETE
\* succeed; only a page whose DELETE succeeded sends the POST, so only it
\* can create a record; a page whose DELETE failed ends with an error status
\* and the store as it was; and the store never holds more records than
\* before the refreshes.
C27_OneRefreshWins ==
    [][/\ \A d, e \in Pages :
             (d # e /\ dash'[d].id = dash'[e].id /\ DeleteSucceeded(dash'[d])) =>
                 ~DeleteSucceeded(dash'[e])
       /\ \A d \in Pages :
             /\ (dash[d].pc = "refresh_del" /\ dash'[d].pc = "idle") =>
                   /\ dash'[d].status.type = "status error"
                   /\ dash'[d].reqs = <<"DELETE /:id">>
                   /\ store' = store /\ nextId' = nextId
             /\ (dash'[d].fn = "refreshWeather" /\ dash'[d].reqs # dash[d].reqs
                 /\ Len(dash'[d].reqs) = 2) =>
                   DeleteSucceeded(dash[d])
       /\ store' # store =>
             \E d \in Pages : dash[d].pc \in {"refresh_del", "refresh_post"}
                              /\ dash'[d].pc # dash[d].pc
       /\ Cardinality(DOMAIN store') <= Cardinality(DOMAIN SeedStore)]_vars

C27_Witness ==
    /\ dash["d1"].fn = "refreshWeather" /\ dash["d2"].fn = "refreshWeather"
    /\ dash["d1"].id = SeedId /\ dash["d2"].id = SeedId
    /\ dash["d1"].pc = "refresh_load"
    /\ dash["d2"].pc = "idle" /\ dash["d2"].reqs = <<"DELETE /:id">>
    /\ dash["d2"].status.message = "Failed to refresh: Weather record not found"
    /\ Cardinality(DOMAIN store) = 1 /\ SeedId \notin DOMAIN store

====
